---- MODULE Spec2Model ----
(***************************************************************************)
(* A model of the in-memory key-value store of main.go: the DataBase type  *)
(* (a map guarded by one sync.RWMutex) and its four methods Set, Get,      *)
(* Persist and Load, called concurrently by a fixed set of goroutines,     *)
(* together with the one file the store is persisted to and the gob        *)
(* encoding of the map in that file.                                       *)
(***************************************************************************)
EXTENDS Integers, Sequences, FiniteSets, TLC

(* ------------------------------ bounds --------------------------------- *)

\* Number of goroutines calling into the store.
NumThreads == 2

\* Total number of method calls made in one behaviour.
MaxOps == 4

Threads == 1..NumThreads

\* No goroutine (the zero of a thread id).
NoThread == 0

Keys == {"a", "b"}

\* Values gob can encode (strings, as in main) ...
GoodValues == {"v1", "v2"}

\* ... and a value gob cannot encode (a channel, a func, an unregistered type).
BadValue == "chan"

Values == GoodValues \cup {BadValue}

\* Marker for "key not in the map".
Absent == "absent"

\* The zero value of `any`, returned by a map read of a missing key.
Nil == "nil"

Paths == {"database.gob"}

(* -------------------------- the map db.data ----------------------------- *)

Maps == [Keys -> Values \cup {Absent}]

\* make(map[string]any)
EmptyMap == [k \in Keys |-> Absent]

KeysOf(m) == {k \in Keys : m[k] # Absent}

\* Faulty variant of MapAssign: the entry is stored into a fresh map.
MapAssignFresh(m, k, v) == [x \in Keys |-> IF x = k THEN v ELSE Absent]

\* Faulty variant of MapAssign: storing the value a key already has removes the key.
MapAssignToggle(m, k, v) == IF m[k] = v THEN [m EXCEPT ![k] = Absent] ELSE [m EXCEPT ![k] = v]

\* m[k] = v
MapAssign(m, k, v) == [m EXCEPT ![k] = v]

\* Faulty variant of MapIndex: the found flag is always true.
MapIndexAlwaysFound(m, k) == [val |-> IF m[k] = Absent THEN Nil ELSE m[k], found |-> TRUE]

\* Faulty variant of MapAfterIndex: reading a missing key inserts it.
MapAfterIndexInsert(m, k) == IF m[k] = Absent THEN [m EXCEPT ![k] = Nil] ELSE m

\* The map after m[k] was read: a read of a Go map leaves it as it is.
MapAfterIndex(m, k) == m

\* value, exists := m[k]
MapIndex(m, k) == [val |-> IF m[k] = Absent THEN Nil ELSE m[k], found |-> m[k] # Absent]

(* --------------------------- the gob stream ----------------------------- *)
(* A file is a sequence of tokens.  A gob stream is a sequence of          *)
(* length-prefixed messages: first the descriptor of the type sent, then   *)
(* the value.  The value message of a map is its length prefix (here the   *)
(* number of entries) followed by key, element, key, element, ...  Each    *)
(* element of a map[string]any is an interface value: the registered name  *)
(* of its concrete type and the value.                                     *)

Tok(tag, s, n) == [tag |-> tag, s |-> s, n |-> n]

\* Descriptor of map[string]interface{}.
TypeTok == Tok("type", "map[string]interface", 0)

\* Descriptor of another type (a file written from a map[string]int).
OtherTypeTok == Tok("type", "map[string]int", 0)

LenTok(n) == Tok("len", "", n)

KeyTok(k) == Tok("key", k, 0)

ValTok(v) == Tok("val", v, 0)

\* An interface value whose concrete type is not registered in this program.
ForeignTok == Tok("val", "unregistered", 0)

\* A zero byte: what a write past the end of a file leaves in the gap.
ZeroTok == Tok("zero", "", 0)

\* The orders in which a range over the map may visit its keys.
Orders(m) ==
  LET S == KeysOf(m)
      n == Cardinality(S)
  IN {o \in [1..n -> S] : \A i, j \in 1..n : i # j => o[i] # o[j]}

\* Faulty variant of Encodable: a value that cannot be encoded goes unnoticed.
EncodableAlways(m) == TRUE

\* The map after the encoder has visited it: Encode only reads the map.
MapAfterEncode(m) == m

\* gob can encode the map when every value in it can be encoded.
Encodable(m) == \A k \in Keys : m[k] # BadValue

\* The value message of map m, its entries visited in order o.
ValueMsg(m, o) ==
  <<LenTok(Len(o))>> \o
  [i \in 1..(2 * Len(o)) |->
     IF i % 2 = 1 THEN KeyTok(o[(i + 1) \div 2]) ELSE ValTok(m[o[i \div 2]])]

\* Faulty variant of WriteAt: every write lands at the end of the file.
WriteAtAppend(bytes, off, chunk) == bytes \o chunk

\* The bytes of a file after chunk is written at offset off.
WriteAt(bytes, off, chunk) ==
  LET end == IF off + Len(chunk) > Len(bytes) THEN off + Len(chunk) ELSE Len(bytes)
  IN [i \in 1..end |->
        IF i > off /\ i <= off + Len(chunk) THEN chunk[i - off]
        ELSE IF i <= Len(bytes) THEN bytes[i]
        ELSE ZeroTok]

\* Decoder: the stream starts with the descriptor of the map type and one
\* whole value message follows.
HeaderOk(bytes) ==
  /\ Len(bytes) >= 2
  /\ bytes[1] = TypeTok
  /\ bytes[2].tag = "len"
  /\ Len(bytes) >= 2 + 2 * bytes[2].n

\* Number of entries announced by the value message.
EntryCount(bytes) == bytes[2].n

\* Decoder: entry i of the value message decodes (a string key and an
\* interface value of a registered type).
EntryOk(bytes, i) ==
  /\ bytes[2 * i + 1].tag = "key"
  /\ bytes[2 * i + 1].s \in Keys
  /\ bytes[2 * i + 2].tag = "val"
  /\ bytes[2 * i + 2].s \in GoodValues

EntryKey(bytes, i) == bytes[2 * i + 1].s

EntryVal(bytes, i) == bytes[2 * i + 2].s

\* Faulty variant of DecodeStore: an entry already in the map is kept.
DecodeStoreKeepOld(m, k, v) == IF m[k] = Absent THEN MapAssign(m, k, v) ELSE m

\* Decoder: a decoded entry is stored into the map it was given.
DecodeStore(m, k, v) == MapAssign(m, k, v)

RECURSIVE DecodeEntries(_, _, _)
\* Decoder: entries i, i+1, ... of the value message are stored into m one
\* after the other, up to the first that does not decode.
DecodeEntries(m, bytes, i) ==
  IF i > EntryCount(bytes) THEN [ok |-> TRUE, map |-> m]
  ELSE IF ~EntryOk(bytes, i) THEN [ok |-> FALSE, map |-> m]
  ELSE DecodeEntries(DecodeStore(m, EntryKey(bytes, i), EntryVal(bytes, i)), bytes, i + 1)

\* decode.Decode(&m) as a whole: whether it returns nil, and the map after it.
Decode(m, bytes) ==
  IF HeaderOk(bytes) THEN DecodeEntries(m, bytes, 1) ELSE [ok |-> FALSE, map |-> m]

(* --------------------------- sync.RWMutex ------------------------------- *)
(* The lock is a record: w is the goroutine that holds or has announced    *)
(* the write lock (Lock first takes the writers' mutex and announces       *)
(* itself, then waits for the readers that hold the lock to leave),        *)
(* readers the goroutines holding a read lock, rwait the goroutines whose  *)
(* RLock found a writer and sleep until that writer's Unlock.              *)

NoLock == [w |-> NoThread, readers |-> {}, rwait |-> {}]

\* Faulty variant of ReaderMayEnter: RLock ignores the writer.
ReaderMayEnterAlways(l) == TRUE

\* RLock returns at once unless a writer holds or has announced the lock.
ReaderMayEnter(l) == l.w = NoThread

\* RLock, called by t.
RLockCall(l, t) ==
  IF ReaderMayEnter(l)
  THEN [l EXCEPT !.readers = @ \cup {t}]
  ELSE [l EXCEPT !.rwait = @ \cup {t}]

\* Faulty variant of RUnlockCall: the read lock is kept.
RUnlockCallKeep(l, t) == l

\* RUnlock, called by t.
RUnlockCall(l, t) == [l EXCEPT !.readers = @ \ {t}]

\* Faulty variant of WriterMayAnnounce: the writers' mutex is not taken.
WriterMayAnnounceAlways(l) == TRUE

\* Lock, first half: take the writers' mutex and announce the writer.
WriterMayAnnounce(l) == l.w = NoThread

\* Faulty variant of WriterMayEnter: the writer does not wait for the readers.
WriterMayEnterAlways(l) == TRUE

\* Lock, second half: the readers that held the lock have left.
WriterMayEnter(l) == l.readers = {}

\* Faulty variant of UnlockCall: the sleeping readers are not woken.
UnlockCallNoWake(l) == [l EXCEPT !.w = NoThread]

\* Unlock: the sleeping readers get the lock, the writers' mutex is freed.
UnlockCall(l) == [w |-> NoThread, readers |-> l.rwait, rwait |-> {}]

(* ------------------------------ os files -------------------------------- *)

NoFile == [exists |-> FALSE, bytes |-> <<>>]

File(bytes) == [exists |-> TRUE, bytes |-> bytes]

\* Faulty variant of OsCreate: the file is opened without O_TRUNC.
OsCreateNoTrunc(f) == IF f.exists THEN f ELSE File(<<>>)

\* os.Create: the file is created if absent and truncated if present.
OsCreate(f) == File(<<>>)

\* Faulty variant of OsOpenOk: a missing file is opened as an empty one.
OsOpenOkAlways(f) == TRUE

\* os.Open succeeds when the file exists.
OsOpenOk(f) == f.exists

Closed == [open |-> FALSE, off |-> 0]

Opened == [open |-> TRUE, off |-> 0]

\* Faulty variant of FileClose: the handle stays open.
FileCloseLeak(h) == h

\* file.Close()
FileClose(h) == Closed

\* Files that may be on disk before the program starts: none, a snapshot cut
\* short, a gob stream of another type, and a snapshot written by a program
\* with more registered types.
TruncatedBytes == <<TypeTok, LenTok(2), KeyTok("a"), ValTok("v1")>>

WrongTypeBytes == <<OtherTypeTok, LenTok(1), KeyTok("a"), ValTok("v1")>>

ForeignBytes == <<TypeTok, LenTok(2), KeyTok("a"), ValTok("v2"), KeyTok("b"), ForeignTok>>

InitFiles == {NoFile, File(TruncatedBytes), File(WrongTypeBytes), File(ForeignBytes)}

(* ------------------------------- state ---------------------------------- *)

VARIABLES
  data,        \* db.data
  lock,        \* db.lock
  fs,          \* the file at each path
  pc,          \* where each goroutine is in the method it called
  op,          \* the method each goroutine called last
  arg,         \* its arguments
  ret,         \* its results
  fd,          \* the file it has open
  cur,         \* Load: the entry of the value message being decoded
  ops,         \* number of calls made so far
  lastSet,     \* history: per key, the value of the latest Set, if known
  pre,         \* history: db.data when the Load in progress took the lock
  saved,       \* history: db.data when the snapshot on disk was written
  loadsInRow,  \* history: successful Loads since the last other change
  firstLoad,   \* history: db.data after the first of those Loads
  solo         \* history: no other goroutine had the file open meanwhile

vars == <<data, lock, fs, pc, op, arg, ret, fd, cur, ops,
          lastSet, pre, saved, loadsInRow, firstLoad, solo>>

DefaultPath == CHOOSE p \in Paths : TRUE

NoArg == [key |-> "", val |-> "", path |-> ""]

NoRet == [val |-> Nil, found |-> FALSE, err |-> "pending"]

NoSnap == [valid |-> FALSE, map |-> EmptyMap]

\* NewDataBase, and the goroutines about to call into the store.
Init ==
  /\ data = EmptyMap
  /\ lock = NoLock
  /\ fs \in [Paths -> InitFiles]
  /\ pc = [t \in Threads |-> "idle"]
  /\ op = [t \in Threads |-> "none"]
  /\ arg = [t \in Threads |-> NoArg]
  /\ ret = [t \in Threads |-> NoRet]
  /\ fd = [t \in Threads |-> Closed]
  /\ cur = [t \in Threads |-> 0]
  /\ ops = 0
  /\ lastSet = [k \in Keys |-> "never"]
  /\ pre = [t \in Threads |-> EmptyMap]
  /\ saved = NoSnap
  /\ loadsInRow = 0
  /\ firstLoad = EmptyMap
  /\ solo = [t \in Threads |-> FALSE]

hist == <<lastSet, pre, saved, loadsInRow, firstLoad, solo>>

\* A goroutine calls one of the four methods.
Call(t, name, a, first) ==
  /\ pc[t] = "idle"
  /\ ops < MaxOps
  /\ ops' = ops + 1
  /\ pc' = [pc EXCEPT ![t] = first]
  /\ op' = [op EXCEPT ![t] = name]
  /\ arg' = [arg EXCEPT ![t] = a]
  /\ UNCHANGED <<data, fs, ret, fd, cur, hist>>

\* The call is over: its frame (arguments and results) is gone.  The
\* results are set before the deferred calls run, and are read there.
Return(t) ==
  /\ pc' = [pc EXCEPT ![t] = "idle"]
  /\ op' = [op EXCEPT ![t] = "none"]
  /\ arg' = [arg EXCEPT ![t] = NoArg]
  /\ ret' = [ret EXCEPT ![t] = NoRet]

(* ------------------------------- Set ------------------------------------ *)

CallSet(t) ==
  \E k \in Keys, v \in Values :
    /\ Call(t, "Set", [key |-> k, val |-> v, path |-> ""], "s_lock")
    /\ UNCHANGED lock

\* db.lock.Lock(), first half
SetLock(t) ==
  /\ pc[t] = "s_lock"
  /\ WriterMayAnnounce(lock)
  /\ lock' = [lock EXCEPT !.w = t]
  /\ pc' = [pc EXCEPT ![t] = "s_wait"]
  /\ UNCHANGED <<data, fs, op, arg, ret, fd, cur, ops, hist>>

\* db.lock.Lock(), second half
SetEnter(t) ==
  /\ pc[t] = "s_wait"
  /\ WriterMayEnter(lock)
  /\ pc' = [pc EXCEPT ![t] = "s_write"]
  /\ lastSet' = [lastSet EXCEPT ![arg[t].key] = arg[t].val]
  /\ UNCHANGED <<data, lock, fs, op, arg, ret, fd, cur, ops,
                 pre, saved, loadsInRow, firstLoad, solo>>

\* db.data[key] = value
SetWrite(t) ==
  /\ pc[t] = "s_write"
  /\ data' = MapAssign(data, arg[t].key, arg[t].val)
  /\ pc' = [pc EXCEPT ![t] = "s_unlock"]
  /\ loadsInRow' = 0
  /\ firstLoad' = EmptyMap
  /\ UNCHANGED <<lock, fs, op, arg, ret, fd, cur, ops, lastSet, pre, saved, solo>>

\* deferred db.lock.Unlock()
SetUnlock(t) ==
  /\ pc[t] = "s_unlock"
  /\ lock' = UnlockCall(lock)
  /\ Return(t)
  /\ UNCHANGED <<data, fs, fd, cur, ops, hist>>

(* ------------------------------- Get ------------------------------------ *)

\* Get is called; db.lock.RLock()
GetRLock(t) ==
  \E k \in Keys :
    /\ Call(t, "Get", [key |-> k, val |-> "", path |-> ""], "g_read")
    /\ lock' = RLockCall(lock, t)

\* value, exists := db.data[key]
GetRead(t) ==
  /\ pc[t] = "g_read"
  /\ t \in lock.readers
  /\ ret' = [ret EXCEPT ![t] = [val |-> MapIndex(data, arg[t].key).val,
                                found |-> MapIndex(data, arg[t].key).found,
                                err |-> "nil"]]
  /\ data' = MapAfterIndex(data, arg[t].key)
  /\ pc' = [pc EXCEPT ![t] = "g_unlock"]
  /\ UNCHANGED <<lock, fs, op, arg, fd, cur, ops, hist>>

\* deferred db.lock.RUnlock(); return value, exists
GetRUnlock(t) ==
  /\ pc[t] = "g_unlock"
  /\ lock' = RUnlockCall(lock, t)
  /\ Return(t)
  /\ UNCHANGED <<data, fs, fd, cur, ops, hist>>

(* ------------------------------ Persist --------------------------------- *)

\* Persist is called; db.lock.RLock()
PersistRLock(t) ==
  \E p \in Paths :
    /\ Call(t, "Persist", [key |-> "", val |-> "", path |-> p], "p_create")
    /\ lock' = RLockCall(lock, t)

\* file, err := os.Create(fileName); if err != nil { return err }
\* The call may fail (a missing directory, no permission).
PersistCreate(t) ==
  /\ pc[t] = "p_create"
  /\ t \in lock.readers
  /\ \E ok \in BOOLEAN :
       IF ok
       THEN /\ fs' = [fs EXCEPT ![arg[t].path] = OsCreate(@)]
            /\ fd' = [fd EXCEPT ![t] = Opened]
            /\ pc' = [pc EXCEPT ![t] = "p_type"]
            /\ saved' = NoSnap
            /\ loadsInRow' = 0
            /\ firstLoad' = EmptyMap
            /\ solo' = [u \in Threads |->
                          IF u = t THEN \A x \in Threads \ {t} : ~fd[x].open ELSE FALSE]
            /\ UNCHANGED ret
       ELSE /\ ret' = [ret EXCEPT ![t].err = "IOError"]
            /\ pc' = [pc EXCEPT ![t] = "p_unlock"]
            /\ UNCHANGED <<fs, fd, saved, loadsInRow, firstLoad, solo>>
  /\ UNCHANGED <<data, lock, op, arg, cur, ops, lastSet, pre>>

\* encode.Encode(db.data), first message: the descriptor of the map type
PersistEncodeType(t) ==
  /\ pc[t] = "p_type"
  /\ fs' = [fs EXCEPT ![arg[t].path].bytes = WriteAt(@, fd[t].off, <<TypeTok>>)]
  /\ fd' = [fd EXCEPT ![t].off = @ + 1]
  /\ pc' = [pc EXCEPT ![t] = "p_value"]
  /\ saved' = NoSnap
  /\ loadsInRow' = 0
  /\ firstLoad' = EmptyMap
  /\ UNCHANGED <<data, lock, op, arg, ret, cur, ops, lastSet, pre, solo>>

\* encode.Encode(db.data), second message: the map, encoded into a buffer
\* and written only if every entry could be encoded
PersistEncodeValue(t) ==
  /\ pc[t] = "p_value"
  /\ IF Encodable(data)
     THEN \E o \in Orders(data) :
            /\ fs' = [fs EXCEPT ![arg[t].path].bytes =
                                   WriteAt(@, fd[t].off, ValueMsg(data, o))]
            /\ fd' = [fd EXCEPT ![t].off = @ + Len(ValueMsg(data, o))]
            /\ ret' = [ret EXCEPT ![t].err = "nil"]
            /\ saved' = [valid |-> TRUE, map |-> data]
     ELSE /\ ret' = [ret EXCEPT ![t].err = "SerializationError"]
          /\ UNCHANGED <<fs, fd, saved>>
  /\ data' = MapAfterEncode(data)
  /\ pc' = [pc EXCEPT ![t] = "p_close"]
  /\ loadsInRow' = 0
  /\ firstLoad' = EmptyMap
  /\ UNCHANGED <<lock, op, arg, cur, ops, lastSet, pre, solo>>

\* deferred file.Close()
PersistClose(t) ==
  /\ pc[t] = "p_close"
  /\ fd' = [fd EXCEPT ![t] = FileClose(@)]
  /\ pc' = [pc EXCEPT ![t] = "p_unlock"]
  /\ UNCHANGED <<data, lock, fs, op, arg, ret, cur, ops, hist>>

\* deferred db.lock.RUnlock()
PersistRUnlock(t) ==
  /\ pc[t] = "p_unlock"
  /\ lock' = RUnlockCall(lock, t)
  /\ Return(t)
  /\ solo' = [solo EXCEPT ![t] = FALSE]
  /\ UNCHANGED <<data, fs, fd, cur, ops,
                 lastSet, pre, saved, loadsInRow, firstLoad>>

(* -------------------------------- Load ---------------------------------- *)

CallLoad(t) ==
  \E p \in Paths :
    /\ Call(t, "Load", [key |-> "", val |-> "", path |-> p], "l_lock")
    /\ UNCHANGED lock

\* db.lock.Lock(), first half
LoadLock(t) ==
  /\ pc[t] = "l_lock"
  /\ WriterMayAnnounce(lock)
  /\ lock' = [lock EXCEPT !.w = t]
  /\ pc' = [pc EXCEPT ![t] = "l_wait"]
  /\ UNCHANGED <<data, fs, op, arg, ret, fd, cur, ops, hist>>

\* db.lock.Lock(), second half
LoadEnter(t) ==
  /\ pc[t] = "l_wait"
  /\ WriterMayEnter(lock)
  /\ pc' = [pc EXCEPT ![t] = "l_open"]
  /\ pre' = [pre EXCEPT ![t] = data]
  /\ lastSet' = [k \in Keys |-> "unknown"]
  /\ UNCHANGED <<data, lock, fs, op, arg, ret, fd, cur, ops,
                 saved, loadsInRow, firstLoad, solo>>

\* file, err := os.Open(fileName); if err != nil { return err }
LoadOpen(t) ==
  /\ pc[t] = "l_open"
  /\ IF OsOpenOk(fs[arg[t].path])
     THEN /\ fd' = [fd EXCEPT ![t] = Opened]
          /\ pc' = [pc EXCEPT ![t] = "l_decode"]
          /\ UNCHANGED <<ret, loadsInRow, firstLoad>>
     ELSE /\ ret' = [ret EXCEPT ![t].err = "IOError"]
          /\ pc' = [pc EXCEPT ![t] = "l_unlock"]
          /\ loadsInRow' = 0
          /\ firstLoad' = EmptyMap
          /\ UNCHANGED fd
  /\ UNCHANGED <<data, lock, fs, op, arg, cur, ops, lastSet, pre, saved, solo>>

\* The history of a Load that returned nil.
LoadSucceeded(m) ==
  /\ loadsInRow' = IF loadsInRow = 0 THEN 1 ELSE 2
  /\ firstLoad' = IF loadsInRow = 0 THEN m ELSE firstLoad

\* The history of a Load that returned an error.
LoadFailed ==
  /\ loadsInRow' = 0
  /\ firstLoad' = EmptyMap

\* decode.Decode(&db.data): the decoder reads the type descriptor and the
\* whole value message before it touches the map
LoadDecodeHeader(t) ==
  LET bytes == fs[arg[t].path].bytes IN
  /\ pc[t] = "l_decode"
  /\ IF ~HeaderOk(bytes)
     THEN /\ ret' = [ret EXCEPT ![t].err = "DeserializationError"]
          /\ pc' = [pc EXCEPT ![t] = "l_close"]
          /\ LoadFailed
          /\ UNCHANGED cur
     ELSE IF EntryCount(bytes) = 0
     THEN /\ ret' = [ret EXCEPT ![t].err = "nil"]
          /\ pc' = [pc EXCEPT ![t] = "l_close"]
          /\ LoadSucceeded(data)
          /\ UNCHANGED cur
     ELSE /\ cur' = [cur EXCEPT ![t] = 1]
          /\ pc' = [pc EXCEPT ![t] = "l_entry"]
          /\ UNCHANGED <<ret, loadsInRow, firstLoad>>
  /\ fd' = [fd EXCEPT ![t].off = IF HeaderOk(bytes) THEN 2 + 2 * EntryCount(bytes)
                                   ELSE Len(bytes)]
  /\ UNCHANGED <<data, lock, fs, op, arg, ops, lastSet, pre, saved, solo>>

\* decode.Decode(&db.data): one entry of the value message is decoded and
\* stored into the map db.data already holds; an entry that does not decode
\* ends the call with an error
LoadDecodeEntry(t) ==
  LET bytes == fs[arg[t].path].bytes
      i == cur[t]
      m == DecodeStore(data, EntryKey(bytes, i), EntryVal(bytes, i))
  IN
  /\ pc[t] = "l_entry"
  /\ IF ~EntryOk(bytes, i)
     THEN /\ ret' = [ret EXCEPT ![t].err = "DeserializationError"]
          /\ pc' = [pc EXCEPT ![t] = "l_close"]
          /\ cur' = [cur EXCEPT ![t] = 0]
          /\ LoadFailed
          /\ UNCHANGED data
     ELSE IF i = EntryCount(bytes)
     THEN /\ data' = m
          /\ ret' = [ret EXCEPT ![t].err = "nil"]
          /\ pc' = [pc EXCEPT ![t] = "l_close"]
          /\ cur' = [cur EXCEPT ![t] = 0]
          /\ LoadSucceeded(m)
     ELSE /\ data' = m
          /\ cur' = [cur EXCEPT ![t] = i + 1]
          /\ UNCHANGED <<ret, pc, loadsInRow, firstLoad>>
  /\ UNCHANGED <<lock, fs, op, arg, fd, ops, lastSet, pre, saved, solo>>

\* deferred file.Close()
LoadClose(t) ==
  /\ pc[t] = "l_close"
  /\ fd' = [fd EXCEPT ![t] = FileClose(@)]
  /\ pc' = [pc EXCEPT ![t] = "l_unlock"]
  /\ UNCHANGED <<data, lock, fs, op, arg, ret, cur, ops, hist>>

\* deferred db.lock.Unlock()
LoadUnlock(t) ==
  /\ pc[t] = "l_unlock"
  /\ lock' = UnlockCall(lock)
  /\ Return(t)
  /\ pre' = [pre EXCEPT ![t] = EmptyMap]
  /\ UNCHANGED <<data, fs, fd, cur, ops,
                 lastSet, saved, loadsInRow, firstLoad, solo>>

(* --------------------------- the whole program -------------------------- *)

Next ==
  \E t \in Threads :
    \/ CallSet(t) \/ SetLock(t) \/ SetEnter(t) \/ SetWrite(t) \/ SetUnlock(t)
    \/ GetRLock(t) \/ GetRead(t) \/ GetRUnlock(t)
    \/ PersistRLock(t) \/ PersistCreate(t)
    \/ PersistEncodeType(t) \/ PersistEncodeValue(t)
    \/ PersistClose(t) \/ PersistRUnlock(t)
    \/ CallLoad(t) \/ LoadLock(t) \/ LoadEnter(t) \/ LoadOpen(t)
    \/ LoadDecodeHeader(t) \/ LoadDecodeEntry(t)
    \/ LoadClose(t) \/ LoadUnlock(t)

Spec == Init /\ [][Next]_vars

(* ------------------------- where a goroutine is ------------------------- *)

\* t is between Lock returning and Unlock.
InWriteCS(t) ==
  pc[t] \in {"s_write", "s_unlock", "l_open", "l_decode", "l_entry", "l_close", "l_unlock"}

\* t is between RLock returning and RUnlock.
InReadCS(t) ==
  \/ pc[t] \in {"g_read", "p_create"} /\ t \in lock.readers
  \/ pc[t] \in {"g_unlock", "p_type", "p_value", "p_close", "p_unlock"}

\* t is in Persist and holds the read lock.
InPersistCS(t) == op[t] = "Persist" /\ InReadCS(t)

\* t is in Load, about to return nil.
LoadReturnsNil(t) == pc[t] \in {"l_close", "l_unlock"} /\ ret[t].err = "nil"

\* t is in Load, about to return an error.
LoadReturnsError(t) ==
  pc[t] \in {"l_close", "l_unlock"} /\ ret[t].err \in {"IOError", "DeserializationError"}

\* t is in Persist, about to return nil.
PersistReturnsNil(t) == pc[t] \in {"p_close", "p_unlock"} /\ ret[t].err = "nil"

\* The mapping a decoder gets from the file at path p, decoding into a new map.
FileMap(p) == Decode(EmptyMap, fs[p].bytes).map

(* ------------------------------ properties ------------------------------ *)

\* C1: when Load returns nil, db.data is exactly the mapping decoded from the
\* file: every key that is not in the file is gone.
LoadReplaces ==
  \A t \in Threads : LoadReturnsNil(t) => data = FileMap(arg[t].path)

\* C2: when Load returns an error, db.data is what it was when Load took
\* the lock.
LoadFailureKeepsStore ==
  \A t \in Threads : LoadReturnsError(t) => data = pre[t]

\* C3: when Load returns nil and the file is the one a Persist that returned
\* nil wrote, untouched since, db.data is the mapping that Persist saved.
RoundTrip ==
  \A t \in Threads : (LoadReturnsNil(t) /\ saved.valid) => data = saved.map

\* C4: Get returns (v, true) for the value v of the latest Set on its key,
\* and (nil, false), with no error, for a key never set; no Load in between.
GetReturnsLatestSet ==
  \A t \in Threads :
    pc[t] = "g_unlock" =>
      /\ ret[t].err = "nil"
      /\ lastSet[arg[t].key] = "never" => (~ret[t].found /\ ret[t].val = Nil)
      /\ lastSet[arg[t].key] \in Values =>
           (ret[t].found /\ ret[t].val = lastSet[arg[t].key])

GetReturnsLatestSetWitness ==
  \E t, u \in Threads :
    /\ pc[t] = "g_unlock" /\ lastSet[arg[t].key] \in Values /\ ret[t].found
    /\ pc[u] = "g_unlock" /\ lastSet[arg[u].key] = "never" /\ ~ret[u].found

\* C5: Load of a path with no file returns an I/O error and leaves db.data
\* as it was when Load took the lock.
LoadMissingFile ==
  \A t \in Threads :
    (pc[t] = "l_unlock" /\ ~fs[arg[t].path].exists) =>
      (ret[t].err = "IOError" /\ data = pre[t] /\ ~fd[t].open)

LoadMissingFileWitness ==
  \E t \in Threads :
    /\ pc[t] = "l_unlock" /\ ~fs[arg[t].path].exists
    /\ ret[t].err = "IOError" /\ data # EmptyMap

\* C6: once no Set is in flight, every key set since the last Load holds the
\* value of the Set that wrote it, and the Gets then running in parallel
\* each return that value with found = true.
NoLostUpdates ==
  (\A t \in Threads : op[t] # "Set") =>
    \A k \in Keys :
      lastSet[k] \in Values =>
        /\ data[k] = lastSet[k]
        /\ \A t \in Threads :
             (pc[t] = "g_unlock" /\ arg[t].key = k) =>
               (ret[t].found /\ ret[t].val = lastSet[k])

\* Every goroutine has set its own key, and all of them are now in Get, each
\* having read another goroutine's or its own key.
NoLostUpdatesWitness ==
  /\ \A t \in Threads : pc[t] = "g_unlock" /\ ret[t].found
  /\ \A t, u \in Threads : t # u => arg[t].key # arg[u].key
  /\ \A k \in Keys : lastSet[k] \in Values

\* C7: while a Set or a Load holds the write lock no other call holds the
\* lock, and what a Get read is the mapping db.data still holds: a Get never
\* runs while a Load has stored only some of the entries.
WritersExclusive ==
  /\ \A t, u \in Threads :
       (t # u /\ InWriteCS(t)) => (~InWriteCS(u) /\ ~InReadCS(u))
  /\ \A t \in Threads :
       pc[t] = "g_unlock" =>
         /\ ret[t].val = MapIndex(data, arg[t].key).val
         /\ ret[t].found = MapIndex(data, arg[t].key).found

\* A Load has stored the first entry of two while a Get and a Persist wait.
WritersExclusiveWitness ==
  \E t, u \in Threads :
    /\ pc[t] = "l_entry" /\ cur[t] = 2 /\ data # pre[t]
    /\ op[u] \in {"Get", "Persist"} /\ u \in lock.rwait

\* C8: db.data does not change while a Persist holds the read lock.
PersistSeesOneMapping ==
  [][(\E t \in Threads : InPersistCS(t)) => data' = data]_vars

\* A Persist is writing the file while a Set and a Load wait for the lock.
PersistSeesOneMappingWitness ==
  \E t, u \in Threads :
    /\ pc[t] = "p_value"
    /\ pc[u] \in {"s_wait", "l_wait"} /\ lock.w = u

\* C9: a second Load that returns nil, with the file and the store untouched
\* since the first one returned nil, leaves db.data as the first one left it.
LoadIdempotent ==
  \A t \in Threads : (LoadReturnsNil(t) /\ loadsInRow = 2) => data = firstLoad

LoadIdempotentWitness ==
  \E t \in Threads : LoadReturnsNil(t) /\ loadsInRow = 2 /\ data # EmptyMap

\* C10: when Persist returns nil and no other call had the file open
\* meanwhile, the file exists and holds the encoding of db.data and nothing
\* else.
PersistTruncates ==
  \A t \in Threads :
    (PersistReturnsNil(t) /\ solo[t]) =>
      LET f == fs[arg[t].path] IN
      /\ f.exists
      /\ Len(f.bytes) = 2 + 2 * Cardinality(KeysOf(data))
      /\ Decode(EmptyMap, f.bytes) = [ok |-> TRUE, map |-> data]

PersistTruncatesWitness ==
  \E t \in Threads : PersistReturnsNil(t) /\ solo[t] /\ data # EmptyMap

\* How far a call has got: the steps of each method, in program order.
Rank(p) ==
  CASE p = "idle" -> 0
    [] p \in {"s_lock", "g_read", "p_create", "l_lock"} -> 1
    [] p \in {"s_wait", "g_unlock", "p_type", "l_wait"} -> 2
    [] p \in {"s_write", "p_value", "l_open"} -> 3
    [] p \in {"s_unlock", "p_close", "l_decode"} -> 4
    [] p \in {"p_unlock", "l_entry"} -> 5
    [] p = "l_close" -> 6
    [] p = "l_unlock" -> 7

\* C11: Persist and Load return every failure as an error result and try
\* each step once.  Persist goes from os.Create straight to its return with
\* an I/O error when the file was not created, and otherwise returns nil
\* exactly when every value could be encoded; Load goes from os.Open straight
\* to its return with an I/O error when there is no file, and otherwise
\* returns nil exactly when the stream decodes; a result once set is the one
\* returned, and no call goes back to a step it has taken.
ErrorsReturnedOnce ==
  /\ [](\A t \in Threads :
          /\ pc[t] \in {"p_unlock", "l_unlock"} =>
               ret[t].err \in {"nil", "IOError", "SerializationError", "DeserializationError"}
          /\ pc[t] = "p_close" =>
               /\ ret[t].err \in {"nil", "SerializationError"}
               /\ ret[t].err = "nil" <=> (\A k \in Keys : data[k] # BadValue)
          /\ pc[t] = "l_close" =>
               /\ ret[t].err \in {"nil", "DeserializationError"}
               /\ ret[t].err = "nil" <=> Decode(pre[t], fs[arg[t].path].bytes).ok)
  /\ [][\A t \in Threads :
          /\ pc'[t] # pc[t] => (pc'[t] = "idle" \/ Rank(pc'[t]) > Rank(pc[t]))
          /\ (pc'[t] = pc[t] /\ cur'[t] # cur[t]) => cur'[t] = cur[t] + 1
          /\ (ret[t].err # "pending" /\ pc'[t] # "idle") => ret'[t] = ret[t]
          /\ (ret[t].err # "pending" /\ pc'[t] # pc[t]) =>
               pc'[t] \in {"p_close", "p_unlock", "l_close", "l_unlock", "g_unlock", "idle"}
          /\ (pc[t] = "p_create" /\ pc'[t] # pc[t]) =>
               \/ fd'[t].open /\ pc'[t] = "p_type" /\ ret'[t].err = "pending"
               \/ ~fd'[t].open /\ fs' = fs /\ pc'[t] = "p_unlock"
                  /\ ret'[t].err = "IOError"
          /\ (pc[t] = "l_open" /\ pc'[t] # pc[t]) =>
               IF fs[arg[t].path].exists
               THEN fd'[t].open /\ pc'[t] = "l_decode" /\ ret'[t].err = "pending"
               ELSE ~fd'[t].open /\ pc'[t] = "l_unlock" /\ ret'[t].err = "IOError"
     ]_vars

\* Each of the four failures is about to be returned by some call.
ErrorsReturnedOnceWitness ==
  \E t, u \in Threads :
    /\ t # u
    /\ \/ pc[t] = "p_unlock" /\ ret[t].err = "IOError"
          /\ pc[u] = "p_unlock" /\ ret[u].err = "SerializationError"
       \/ pc[t] = "l_unlock" /\ ret[t].err = "DeserializationError" /\ data # pre[t]
          /\ pc[u] = "p_create"

\* C12, as claimed: Set, Persist and Load each hold the lock exclusively:
\* while one of them is in its critical section no other call is in its own.
PersistExclusive ==
  \A t, u \in Threads :
    (t # u /\ (InWriteCS(t) \/ InPersistCS(t))) => (~InWriteCS(u) /\ ~InReadCS(u))

\* C12, amended: Set and Load hold the write lock for their full duration
\* and exclude every other call; Persist holds a read lock for its full
\* duration and excludes Set and Load only.
PersistSharedAccess ==
  \A t \in Threads :
    /\ InWriteCS(t) =>
         /\ lock.w = t /\ lock.readers = {}
         /\ \A u \in Threads \ {t} : ~InWriteCS(u) /\ ~InReadCS(u)
    /\ InPersistCS(t) =>
         /\ t \in lock.readers
         /\ \A u \in Threads : ~InWriteCS(u)

\* A Persist is writing the file while a Get has read the map and still
\* holds its read lock.
PersistSharedAccessWitness ==
  \E t, u \in Threads : pc[t] = "p_value" /\ pc[u] = "g_unlock"

\* t has called Get and sleeps in RLock.
GetWaits(t) == pc[t] = "g_read" /\ t \notin lock.readers

\* C13: a Get waits only while a Set or a Load holds or has asked for the
\* write lock: when every other call in flight is a Get (or a Persist), a Get
\* holds its read lock.
GetsDoNotBlockGets ==
  \A t \in Threads :
    GetWaits(t) => \E u \in Threads \ {t} : op[u] \in {"Set", "Load"} /\ lock.w = u

\* Two Gets are inside their critical sections at the same time.
GetsDoNotBlockGetsWitness ==
  \E t, u \in Threads :
    /\ t # u
    /\ pc[t] \in {"g_read", "g_unlock"} /\ t \in lock.readers
    /\ pc[u] \in {"g_read", "g_unlock"} /\ u \in lock.readers

(* ------------------------ goroutines that go on ------------------------- *)

\* The goroutines go on calling: the count of calls starts again.
MoreCalls ==
  /\ ops = MaxOps
  /\ ops' = 0
  /\ UNCHANGED <<data, lock, fs, pc, op, arg, ret, fd, cur, hist>>

\* The steps of t inside a call that wait for no other goroutine's mutex.
Proceed(t) ==
  \/ SetEnter(t) \/ SetWrite(t) \/ SetUnlock(t)
  \/ GetRead(t) \/ GetRUnlock(t)
  \/ PersistCreate(t) \/ PersistEncodeType(t) \/ PersistEncodeValue(t)
  \/ PersistClose(t) \/ PersistRUnlock(t)
  \/ LoadEnter(t) \/ LoadOpen(t) \/ LoadDecodeHeader(t) \/ LoadDecodeEntry(t)
  \/ LoadClose(t) \/ LoadUnlock(t)

\* The scheduler runs every goroutine that can run; file operations end;
\* the writers' mutex is handed to a goroutine that keeps waiting for it
\* (sync.Mutex does not starve a waiter).
Fairness ==
  \A t \in Threads :
    /\ WF_vars(Proceed(t))
    /\ SF_vars(SetLock(t))
    /\ SF_vars(LoadLock(t))

\* The calls made when the goroutines go on for ever: whether a call returns
\* depends on the lock and not on the entry written, so one key and one value
\* are enough.
LiveArgs ==
  \A t \in Threads : arg[t].key \in {"", "a"} /\ arg[t].val \in {"", "v1"}

LiveNext == (Next \/ MoreCalls) /\ LiveArgs'

LiveSpec == Init /\ [][LiveNext]_vars /\ Fairness

\* C14: under fair scheduling every call that was made returns: a Set or a
\* Load that waits for the write lock is not put off for ever by the Gets and
\* Persists the other goroutines go on calling, and no state is a deadlock.
EveryCallReturns ==
  \A t \in Threads : (pc[t] # "idle") ~> (pc[t] = "idle")

\* A Set has asked for the write lock and waits for a Persist to leave,
\* after the count of calls has started again.
EveryCallReturnsWitness ==
  \E t \in Threads :
    /\ pc[t] = "s_wait" /\ lock.w = t /\ lock.readers # {}
    /\ \A r \in lock.readers : op[r] = "Persist"
    /\ ops = 1 /\ data # EmptyMap

\* t takes a step of Get or of Persist (the call, a step inside, the return).
ReaderSteps(t) ==
  /\ pc'[t] # pc[t]
  /\ op[t] \in {"Get", "Persist"} \/ op'[t] \in {"Get", "Persist"}

\* C15: no step of a Get or of a Persist changes db.data, whether the call
\* is about to return nil or an error.
ReadersLeaveTheMap ==
  [][(\E t \in Threads : ReaderSteps(t)) => data' = data]_vars

\* A Persist that failed to encode and a Get of a missing key are about to
\* return, and the store holds its entries.
ReadersLeaveTheMapWitness ==
  \E t, u \in Threads :
    /\ pc[t] = "p_unlock" /\ ret[t].err = "SerializationError"
    /\ pc[u] = "g_unlock" /\ ~ret[u].found
    /\ data # EmptyMap

\* C16: a call that has run its deferred file.Close, or has returned, holds
\* no open file: when no call is in flight the store has no open handle.
NoHandleRetained ==
  \A t \in Threads : pc[t] \in {"idle", "p_unlock", "l_unlock"} => ~fd[t].open

\* A Load that failed to decode and a Persist that failed to encode have
\* both closed their file.
NoHandleRetainedWitness ==
  \E t, u \in Threads :
    /\ pc[t] = "l_unlock" /\ ret[t].err = "DeserializationError" /\ ~fd[t].open
    /\ pc[u] = "idle" /\ ops >= 2 /\ fs[arg[t].path].bytes = <<TypeTok>>

\* C17: a goroutine that is in no call holds no part of the lock, and when
\* no call is in flight the lock has no reader, no writer and no sleeper.
LockReleased ==
  /\ \A t \in Threads :
       pc[t] = "idle" => (lock.w # t /\ t \notin lock.readers /\ t \notin lock.rwait)
  /\ (\A t \in Threads : pc[t] = "idle") =>
       /\ lock = NoLock
       /\ ReaderMayEnter(lock) /\ WriterMayAnnounce(lock) /\ WriterMayEnter(lock)

\* Every call has returned, among them a Persist whose Encode failed and,
\* after the last Set, a Load.
LockReleasedWitness ==
  /\ \A t \in Threads : pc[t] = "idle"
  /\ ops = MaxOps
  /\ \E p \in Paths : fs[p].bytes = <<TypeTok>>
  /\ lastSet = [k \in Keys |-> "unknown"]

\* C18: when Load returns nil, every key of the file's mapping has the
\* file's value in db.data, whatever value it had before.
LoadTakesFileValues ==
  \A t \in Threads :
    LoadReturnsNil(t) =>
      \A k \in KeysOf(FileMap(arg[t].path)) : data[k] = FileMap(arg[t].path)[k]

\* A Load has replaced the value a key had in the store by the file's.
LoadTakesFileValuesWitness ==
  \E t \in Threads :
    /\ LoadReturnsNil(t)
    /\ \E k \in KeysOf(FileMap(arg[t].path)) :
         pre[t][k] \in Values /\ pre[t][k] # FileMap(arg[t].path)[k]

\* C19: when two Persist calls that held the read lock together have both
\* written and closed the file with a nil result, and no other call has the
\* file open, the file decodes to db.data.
OverlappingPersists ==
  \A t, u \in Threads :
    ( /\ t # u
      /\ pc[t] = "p_unlock" /\ ret[t].err = "nil"
      /\ pc[u] = "p_unlock" /\ ret[u].err = "nil"
      /\ arg[t].path = arg[u].path
      /\ \A x \in Threads : ~fd[x].open ) =>
        LET f == fs[arg[t].path] IN
        /\ f.exists
        /\ Decode(EmptyMap, f.bytes) = [ok |-> TRUE, map |-> data]

\* Two Persist calls, each of which had the file open while the other did,
\* have both finished writing a store of two keys.
OverlappingPersistsWitness ==
  \E t, u \in Threads :
    /\ t # u
    /\ pc[t] = "p_unlock" /\ ret[t].err = "nil" /\ ~solo[t]
    /\ pc[u] = "p_unlock" /\ ret[u].err = "nil" /\ ~solo[u]
    /\ arg[t].path = arg[u].path
    /\ \A x \in Threads : ~fd[x].open
    /\ KeysOf(data) = Keys

====
